---- MODULE Spec2Model ----
(***************************************************************************)
(* Model of the bulk downloader (src/views/bulk-downloader.tsx) and of the *)
(* bulk details list (src/views/bulk-details-list.tsx).                    *)
(*                                                                         *)
(* A batch run (one call of onSubmit) is a record; the handlers of the     *)
(* child process events (stdout data, close, error), the toast's cancel    *)
(* action and the loop of onSubmit are operators on that record.  A        *)
(* handler and the continuation of the await that it resumes run without   *)
(* interruption (one JavaScript job and its microtasks), so each event is  *)
(* one action.                                                             *)
(***************************************************************************)
EXTENDS Integers, Sequences, FiniteSets, TLC

VARIABLES run, downloading, fetch

vars == <<run, downloading, fetch>>

----------------------------------------------------------------------------
(* Bounds *)

\* Length of the text of the URLs field, in tokens.
MaxText == 5

\* Exit codes a child process closes with are 0..MaxExitCode.
MaxExitCode == 1

\* Number of batches the form may submit.
MaxBatches == 2

\* Length of the text of a submit, in tokens, where several runs overlap.
MaxTextOverlap == 1

\* Length of the standard output of the metadata subprocess, in tokens.
MaxStdout == 5

Batches == 1..MaxBatches

ExitCodes == 0..MaxExitCode

----------------------------------------------------------------------------
(* The text of the URLs field.  A text is a sequence of tokens: "a" and    *)
(* "b" are two URLs, "x" is text that is no URL, "\n" is the line break.   *)

NL == "\n"

TextTokens == {"a", "b", "x", NL}

Texts == UNION {[1..n -> TextTokens] : n \in 0..MaxText}

ShortTexts == UNION {[1..n -> TextTokens] : n \in 0..MaxTextOverlap}

RECURSIVE SplitFrom(_, _, _)
\* String.prototype.split("\n"): the lines of text from position i on, cur
\* being the line read so far.  The empty text has one (empty) line.
SplitFrom(text, i, cur) ==
    IF i > Len(text) THEN <<cur>>
    ELSE IF text[i] = NL THEN <<cur>> \o SplitFrom(text, i + 1, <<>>)
    ELSE SplitFrom(text, i + 1, Append(cur, text[i]))

Split(text) == SplitFrom(text, 1, <<>>)

\* isValidUrl of ../utils: a line is a URL when it is exactly one URL token.
isValidUrl(line) == line \in {<<"a">>, <<"b">>}

RECURSIVE FilterSeq(_, _)
\* Array.prototype.filter with a predicate given as the set of kept values.
FilterSeq(s, keep) ==
    IF s = <<>> THEN <<>>
    ELSE IF Head(s) \in keep THEN <<Head(s)>> \o FilterSeq(Tail(s), keep)
    ELSE FilterSeq(Tail(s), keep)

Range(s) == {s[i] : i \in DOMAIN s}

\* values.urls.split("\n").filter((url) => isValidUrl(url))
SubmittedUrls(text) ==
    LET lines == Split(text)
    IN FilterSeq(lines, {l \in Range(lines) : isValidUrl(l)})

----------------------------------------------------------------------------
(* Progress lines.  A line of standard output is a sequence of tokens:     *)
(* "[download]" is that literal text, " " is white space, "0".."9" are     *)
(* digits, "." and "%" themselves, anything else is other text.            *)

Digits == {"0", "1", "2", "3", "4", "5", "6", "7", "8", "9"}

DigitValue(d) ==
    CASE d = "0" -> 0 [] d = "1" -> 1 [] d = "2" -> 2 [] d = "3" -> 3
      [] d = "4" -> 4 [] d = "5" -> 5 [] d = "6" -> 6 [] d = "7" -> 7
      [] d = "8" -> 8 [] d = "9" -> 9

RECURSIVE SpanIn(_, _, _)
\* Number of consecutive tokens of line, from position i, that are in set.
SpanIn(line, i, set) ==
    IF i <= Len(line) /\ line[i] \in set THEN 1 + SpanIn(line, i + 1, set) ELSE 0

RECURSIVE DigitsToNat(_, _, _)
\* The decimal value of the n digits of line from position i.
DigitsToNat(line, i, n) ==
    IF n = 0 THEN 0
    ELSE 10 * DigitsToNat(line, i, n - 1) + DigitValue(line[i + n - 1])

RECURSIVE Pow10(_)
Pow10(n) == IF n = 0 THEN 1 ELSE 10 * Pow10(n - 1)

NoMatch == [matched |-> FALSE, num |-> 0, den |-> 1]

\* /\[download\]\s+(\d+(\.\d+)?)%.*/ tried at position i: the number of the
\* first group as the fraction num/den.
MatchAt(line, i) ==
    IF ~(i <= Len(line) /\ line[i] = "[download]") THEN NoMatch
    ELSE LET ws == SpanIn(line, i + 1, {" "})
             p  == i + 1 + ws
             nd == SpanIn(line, p, Digits)
             q  == p + nd
             nf == IF q <= Len(line) /\ line[q] = "." THEN SpanIn(line, q + 1, Digits) ELSE 0
         IN IF ws = 0 \/ nd = 0 THEN NoMatch
            ELSE IF q <= Len(line) /\ line[q] = "%"
                 THEN [matched |-> TRUE, num |-> DigitsToNat(line, p, nd), den |-> 1]
            ELSE IF nf > 0 /\ q + nf + 1 <= Len(line) /\ line[q + nf + 1] = "%"
                 THEN [matched |-> TRUE,
                       num |-> DigitsToNat(line, p, nd) * Pow10(nf) + DigitsToNat(line, q + 1, nf),
                       den |-> Pow10(nf)]
            ELSE NoMatch

RECURSIVE ExecFrom(_, _)
\* RegExp.prototype.exec: the leftmost position where the pattern matches.
ExecFrom(line, i) ==
    IF i > Len(line) THEN NoMatch
    ELSE IF MatchAt(line, i).matched THEN MatchAt(line, i)
    ELSE ExecFrom(line, i + 1)

\* Number(/.../.exec(line)?.[1]): NaN when there is no match.
ParseProgress(line) ==
    LET m == ExecFrom(line, 1)
    IN [nan |-> ~m.matched, num |-> m.num, den |-> m.den]

\* JavaScript truthiness of a number: neither NaN nor 0.
Truthy(progress) == ~progress.nan /\ progress.num # 0

\* Rounding to the nearest integer in place of Math.floor.
Round(progress) == (2 * progress.num + progress.den) \div (2 * progress.den)

\* Math.floor of a non-negative fraction.
Floor(progress) == progress.num \div progress.den

\* The lines of standard output the download subprocess is made to print.
DataLines ==
    { <<"[download]", " ", " ", "4", "2", ".", "5", "%", " ", "of">>,
      <<"[download]", " ", "0", ".", "0", "%">>,
      <<"[download]", " ", "0", ".", "5", "%">>,
      <<"[download]", "4", "2", "%">>,
      <<"[info]", " ", "7", "%">> }

----------------------------------------------------------------------------
(* A batch run: the local state of one call of onSubmit.                   *)

\* Toast titles and messages are records, so that two of them compare.
Title(text, i, n) == [text |-> text, i |-> i, n |-> n]

Message(text, a, b) == [text |-> text, a |-> a, b |-> b]

NoText == ""

NoToast ==
    [style |-> "None", title |-> Title(NoText, 0, 0), message |-> Message(NoText, 0, 0),
     primaryAction |-> "None", secondaryAction |-> "None"]

\* The state of a form that has not been submitted.  Besides the variables
\* of onSubmit (urls, index, isCancelled, activeProcess, successCount, toast)
\* a run records what happened to it: proc, the state of the child process
\* of each job; status, how the promise of each job was settled and caught;
\* logged, the jobs passed to console.error; spawned, the jobs in the order
\* of their spawn; killed, the handles kill() was called on; closed, the
\* close events with their codes; errored, the handles that emitted error;
\* cancelledAt, the value of index when the cancel action ran; lastData,
\* the last line the running job printed.
NotStarted ==
    [pc |-> "NotStarted", urls |-> <<>>, index |-> 0, isCancelled |-> FALSE,
     activeProcess |-> 0, successCount |-> 0, toast |-> NoToast,
     proc |-> <<>>, status |-> <<>>, logged |-> {},
     spawned |-> <<>>, killed |-> {}, closed |-> {}, errored |-> {}, cancelledAt |-> 0,
     lastData |-> <<>>]

\* RejectSubmit without its return: onSubmit goes on with no URL.
RejectSubmitGoesOn(r) ==
    [r EXCEPT !.pc = "AwaitToast",
              !.toast = [NoToast EXCEPT !.style = "Animated",
                                        !.title = Title("Downloading videos...", 0, 0)]]

\* showToast({style: Failure, title: "No valid URLs found"}); return
RejectSubmit(r) ==
    [r EXCEPT !.pc = "NoUrls",
              !.toast = [NoToast EXCEPT !.style = "Failure",
                                        !.title = Title("No valid URLs found", 0, 0)]]

\* setDownloading(true); const toast = await showToast({...Animated})
BeginSubmit(r, urls) ==
    [r EXCEPT !.pc = "AwaitToast",
              !.urls = urls,
              !.proc = [j \in DOMAIN urls |-> "None"],
              !.status = [j \in DOMAIN urls |-> "Pending"],
              !.toast = [NoToast EXCEPT !.style = "Animated",
                                        !.title = Title("Downloading videos...", 0, Len(urls))]]

\* Report with the "partial" test reduced to failures > 0.
ReportPartialOnAnyFailure(r) ==
    LET total    == Len(r.urls)
        failures == total - r.successCount
        t1 == IF failures > 0
              THEN [r.toast EXCEPT !.style = "Failure",
                                   !.title = Title("Bulk download finished with errors", 0, 0),
                                   !.message = Message("downloaded, failed", r.successCount, failures)]
              ELSE [r.toast EXCEPT !.style = "Success",
                                   !.title = Title("Bulk download complete", 0, 0),
                                   !.message = Message("Downloaded videos", r.successCount, 0)]
    IN [r EXCEPT !.pc = "Completed",
                 !.toast = [t1 EXCEPT !.primaryAction = "Open in Finder",
                                      !.secondaryAction = "Copy to Clipboard"]]

\* The final report of a run that was not cancelled.
Report(r) ==
    LET total    == Len(r.urls)
        failures == total - r.successCount
        t1 == IF failures > 0 /\ r.successCount > 0
              THEN [r.toast EXCEPT !.style = "Failure",
                                   !.title = Title("Bulk download finished with errors", 0, 0),
                                   !.message = Message("downloaded, failed", r.successCount, failures)]
              ELSE IF failures = total
              THEN [r.toast EXCEPT !.style = "Failure",
                                   !.title = Title("Bulk download failed", 0, 0),
                                   !.message = Message("All downloads failed", 0, 0)]
              ELSE [r.toast EXCEPT !.style = "Success",
                                   !.title = Title("Bulk download complete", 0, 0),
                                   !.message = Message("Downloaded videos", r.successCount, 0)]
    IN [r EXCEPT !.pc = "Completed",
                 !.toast = [t1 EXCEPT !.primaryAction = "Open in Finder",
                                      !.secondaryAction = "Copy to Clipboard"]]

\* Finish without the test of isCancelled after the loop.
FinishAlwaysReports(r) == Report(r)

\* After the loop: if (isCancelled) return; otherwise the final report.
Finish(r) ==
    IF r.isCancelled THEN [r EXCEPT !.pc = "Cancelled"] ELSE Report(r)

\* LoopGuard that never breaks.
LoopGuardOff(r) == FALSE

\* The guard at the head of the loop body: if (isCancelled) break
LoopGuard(r) == r.isCancelled

\* The body of the loop for job j up to the await: the toast, then spawn,
\* which yields a live process (ok) or a handle whose spawn failed and that
\* reports it with an 'error' event.
StartJob(r, j, ok) ==
    [r EXCEPT !.index = j,
              !.toast.title = Title("Downloading video", j, Len(r.urls)),
              !.toast.message = Message("Starting...", 0, 0),
              !.activeProcess = j,
              !.proc[j] = IF ok THEN "Alive" ELSE "SpawnFailed",
              !.status[j] = "Running",
              !.spawned = Append(@, j),
              !.lastData = <<>>]

\* One turn of for (const [index, url] of urls.entries()), j being index+1.
Iterate(r, j, ok) ==
    IF j > Len(r.urls) THEN Finish(r)
    ELSE IF LoopGuard(r) THEN Finish(r)
    ELSE StartJob(r, j, ok)

\* The promise of job j is still pending (the first resolve or reject
\* settles it, later ones have no effect).
Pending(r, j) == r.status[j] = "Running"

\* resolve(): the await returns and the loop goes on with the next URL.
Resolved(r, j, ok) ==
    IF Pending(r, j) THEN Iterate([r EXCEPT !.status[j] = "Succeeded"], j + 1, ok)
    ELSE r

\* Caught that leaves the loop on the failure of a job.
CaughtAborts(r, j, ok) ==
    IF r.isCancelled THEN Finish([r EXCEPT !.status[j] = "Cancelled"])
    ELSE Finish([r EXCEPT !.status[j] = "Failed", !.logged = @ \cup {j}])

\* Caught that logs the error before it tests isCancelled.
CaughtLogsFirst(r, j, ok) ==
    IF r.isCancelled
    THEN Finish([r EXCEPT !.status[j] = "Failed", !.logged = @ \cup {j}])
    ELSE Iterate([r EXCEPT !.status[j] = "Failed", !.logged = @ \cup {j}], j + 1, ok)

\* The catch clause: if (isCancelled) break; console.error(...)
Caught(r, j, ok) ==
    IF r.isCancelled THEN Finish([r EXCEPT !.status[j] = "Cancelled"])
    ELSE Iterate([r EXCEPT !.status[j] = "Failed", !.logged = @ \cup {j}], j + 1, ok)

\* reject(...): the await throws into the catch clause.
Rejected(r, j, ok) ==
    IF Pending(r, j) THEN Caught(r, j, ok) ELSE r

\* OnClose without the reject of a code that is not 0.
OnCloseNoReject(r, j, code, ok) ==
    LET r1 == [r EXCEPT !.proc[j] = "Closed", !.closed = @ \cup {<<j, code>>}]
    IN IF code = 0
       THEN Resolved([r1 EXCEPT !.successCount = @ + 1], j, ok)
       ELSE r1

\* OnClose that counts every close as a success.
OnCloseCountsAll(r, j, code, ok) ==
    LET r1 == [r EXCEPT !.proc[j] = "Closed", !.closed = @ \cup {<<j, code>>},
                        !.successCount = @ + 1]
    IN IF code = 0 THEN Resolved(r1, j, ok) ELSE Rejected(r1, j, ok)

\* activeProcess.on("close", (code) => ...) of the process of job j.
OnClose(r, j, code, ok) ==
    LET r1 == [r EXCEPT !.proc[j] = "Closed", !.closed = @ \cup {<<j, code>>}]
    IN IF code = 0
       THEN Resolved([r1 EXCEPT !.successCount = @ + 1], j, ok)
       ELSE Rejected(r1, j, ok)

\* activeProcess.on("error", (err) => reject(err)) of the process of job j.
OnError(r, j, ok) ==
    Rejected([r EXCEPT !.proc[j] = "Errored", !.errored = @ \cup {j}], j, ok)

\* OnData that takes a progress line for the end of the job.
OnDataResolves(r, j, line) ==
    IF Truthy(ParseProgress(line))
    THEN Resolved([r EXCEPT !.lastData = line,
                            !.toast.message = Message("%", Floor(ParseProgress(line)), 0)], j, TRUE)
    ELSE [r EXCEPT !.lastData = line]

\* activeProcess.stdout?.on("data", (data) => ...) of the process of job j.
\* lastData records the line, for the statements about it.
OnData(r, j, line) ==
    LET progress == ParseProgress(line)
        r1 == [r EXCEPT !.lastData = line]
    IN IF Truthy(progress)
       THEN [r1 EXCEPT !.toast.message = Message("%", Floor(progress), 0)]
       ELSE r1

\* OnCancel that flips isCancelled in place of setting it.
OnCancelToggles(r) ==
    [r EXCEPT !.isCancelled = ~@,
              !.killed = IF r.activeProcess # 0 THEN @ \cup {r.activeProcess} ELSE @,
              !.cancelledAt = r.index,
              !.toast = [@ EXCEPT !.title = Title("Download Cancelled", 0, 0),
                                  !.style = "Failure",
                                  !.message = Message("Bulk download was stopped", 0, 0),
                                  !.primaryAction = "None"]]

\* toast.primaryAction.onAction: the Stop Download action.
OnCancel(r) ==
    [r EXCEPT !.isCancelled = TRUE,
              !.killed = IF r.activeProcess # 0 THEN @ \cup {r.activeProcess} ELSE @,
              !.cancelledAt = r.index,
              !.toast = [@ EXCEPT !.title = Title("Download Cancelled", 0, 0),
                                  !.style = "Failure",
                                  !.message = Message("Bulk download was stopped", 0, 0),
                                  !.primaryAction = "None"]]

\* The rest of onSubmit once showToast has returned: the cancel action is
\* installed, successCount is 0, and the loop starts with the first URL.
AfterToast(r, ok) ==
    Iterate([r EXCEPT !.pc = "Running",
                      !.toast.primaryAction = "Stop Download",
                      !.successCount = 0], 1, ok)

----------------------------------------------------------------------------
(* Actions of the download form *)

\* setDownloading(false) at the end of a run that completes.
DownloadingAfter(before, after) ==
    IF before.pc # "Completed" /\ after.pc = "Completed" THEN FALSE ELSE downloading

\* onSubmit, called with the text of the field, up to its first await.
SubmitText(b, text) ==
    LET urls == SubmittedUrls(text)
    IN IF Len(urls) = 0
       THEN /\ run' = [run EXCEPT ![b] = RejectSubmit(@)]
            /\ UNCHANGED downloading
       ELSE /\ run' = [run EXCEPT ![b] = BeginSubmit(@, urls)]
            /\ downloading' = TRUE

\* Download All: handleSubmit calls onSubmit with the text of the field.
Submit(b) ==
    /\ run[b].pc = "NotStarted"
    /\ \E text \in Texts : SubmitText(b, text)
    /\ UNCHANGED fetch

\* Download All with a short text; the form accepts it whatever the state
\* of the runs submitted before.
SubmitShort(b) ==
    /\ run[b].pc = "NotStarted"
    /\ \E text \in ShortTexts : SubmitText(b, text)
    /\ UNCHANGED fetch

\* showToast returns and onSubmit runs up to its first await of a job.
ToastShown(b) ==
    /\ run[b].pc = "AwaitToast"
    /\ \E ok \in BOOLEAN :
        /\ run' = [run EXCEPT ![b] = AfterToast(@, ok)]
        /\ downloading' = DownloadingAfter(run[b], run'[b])
    /\ UNCHANGED fetch

\* The running process of job j prints a line.
StdoutData(b) ==
    /\ \E j \in DOMAIN run[b].proc, line \in DataLines :
        /\ run[b].proc[j] = "Alive"
        /\ run' = [run EXCEPT ![b] = OnData(@, j, line)]
    /\ UNCHANGED <<downloading, fetch>>

\* The process of job j ends and its streams are closed.  After a failed
\* spawn the handle still emits close, with a code that is not 0.
CloseEvent(b) ==
    /\ \E j \in DOMAIN run[b].proc, code \in ExitCodes, ok \in BOOLEAN :
        /\ \/ run[b].proc[j] = "Alive"
           \/ run[b].proc[j] = "Errored" /\ code # 0
        /\ run' = [run EXCEPT ![b] = OnClose(@, j, code, ok)]
        /\ downloading' = DownloadingAfter(run[b], run'[b])
    /\ UNCHANGED fetch

\* The handle of job j, whose spawn failed, emits error.
ErrorEvent(b) ==
    /\ \E j \in DOMAIN run[b].proc, ok \in BOOLEAN :
        /\ run[b].proc[j] = "SpawnFailed"
        /\ run' = [run EXCEPT ![b] = OnError(@, j, ok)]
        /\ downloading' = DownloadingAfter(run[b], run'[b])
    /\ UNCHANGED fetch

\* The user triggers Stop Download while the toast offers it.
Cancel(b) ==
    /\ run[b].toast.primaryAction = "Stop Download"
    /\ run' = [run EXCEPT ![b] = OnCancel(@)]
    /\ downloading' = FALSE
    /\ UNCHANGED fetch

----------------------------------------------------------------------------
(* The bulk details list: the callback of usePromise.                      *)
(* The standard output of the metadata subprocess is a sequence of tokens: *)
(* "J1" and "J2" are the texts of two JSON records, "{" is text that is no *)
(* JSON, " " is white space, "\n" is the line break.                       *)

StdoutTokens == {"J1", "J2", "{", " ", NL}

Stdouts == UNION {[1..n -> StdoutTokens] : n \in 0..MaxStdout}

\* The title of the record a token is the text of; "/" is a character that
\* sanitizeVideoTitle removes.
RawTitle(tok) == IF tok = "J1" THEN <<"T", "/">> ELSE <<"U">>

\* sanitizeVideoTitle of ../utils.
sanitizeVideoTitle(title) == FilterSeq(title, Range(title) \ {"/"})

\* line.trim()
Trim(line) == FilterSeq(line, Range(line) \ {" "})

\* JSON.parse(line) returns (it throws on anything but one JSON text, white
\* space around it allowed).
Parses(line) == Trim(line) \in {<<"J1">>, <<"J2">>}

\* { ...data, title: sanitizeVideoTitle(data.title) }
ParsedVideo(line) ==
    [id |-> Trim(line)[1], title |-> sanitizeVideoTitle(RawTitle(Trim(line)[1]))]

\* ParseVideos that gives up on the first line that does not parse.
ParseVideosAllOrNothing(stdout) ==
    LET all   == Split(stdout)
        lines == FilterSeq(all, {l \in Range(all) : Len(Trim(l)) > 0})
    IN IF \A i \in DOMAIN lines : Parses(lines[i])
       THEN [i \in DOMAIN lines |-> ParsedVideo(lines[i])]
       ELSE <<>>

\* result.stdout.split("\n").filter(nonblank).map(parse or null).filter(non-null)
ParseVideos(stdout) ==
    LET all   == Split(stdout)
        lines == FilterSeq(all, {l \in Range(all) : Len(Trim(l)) > 0})
        good  == FilterSeq(lines, {l \in Range(lines) : Parses(l)})
    IN [i \in DOMAIN good |-> ParsedVideo(good[i])]

\* execa(...) rejects when the subprocess cannot be spawned and when it
\* exits with a code that is not 0.
ExecaThrows(spawned, code) == ~spawned \/ code # 0

NoFetch ==
    [pc |-> "Idle", urls |-> <<>>, videos |-> <<>>, toasts |-> 0,
     spawned |-> FALSE, stdout |-> <<>>, code |-> 0]

\* The callback up to await execa(...): if (urls.length === 0) return []
FetchStart(f, urls) ==
    IF Len(urls) = 0 THEN [f EXCEPT !.pc = "Done", !.urls = urls]
    ELSE [f EXCEPT !.pc = "Running", !.urls = urls]

\* FetchEnd without the catch clause: the rejection of execa reaches the
\* caller.
FetchEndNoCatch(f, spawned, stdout, code) ==
    LET f1 == [f EXCEPT !.pc = "Done", !.spawned = spawned, !.stdout = stdout, !.code = code]
    IN IF ExecaThrows(spawned, code)
       THEN [f1 EXCEPT !.pc = "Threw"]
       ELSE [f1 EXCEPT !.videos = ParseVideos(stdout)]

\* The callback from the await on: the try block and its catch clause.
FetchEnd(f, spawned, stdout, code) ==
    LET f1 == [f EXCEPT !.pc = "Done", !.spawned = spawned, !.stdout = stdout, !.code = code]
    IN IF ExecaThrows(spawned, code)
       THEN [f1 EXCEPT !.toasts = @ + 1, !.videos = <<>>]
       ELSE [f1 EXCEPT !.videos = ParseVideos(stdout)]

\* Show Details, offered when values.urls.trim().length > 0, pushes the list
\* with the valid lines of the field.
ShowDetails ==
    /\ fetch.pc = "Idle"
    /\ \E text \in Texts :
        /\ Range(text) \ {NL} # {}
        /\ fetch' = FetchStart(fetch, SubmittedUrls(text))
    /\ UNCHANGED <<run, downloading>>

\* The metadata subprocess ends, with its output and its exit code.
ExecaReturns ==
    /\ fetch.pc = "Running"
    /\ \E stdout \in Stdouts, code \in ExitCodes :
        fetch' = FetchEnd(fetch, TRUE, stdout, code)
    /\ UNCHANGED <<run, downloading>>

\* The metadata subprocess cannot be spawned.
ExecaFails ==
    /\ fetch.pc = "Running"
    /\ fetch' = FetchEnd(fetch, FALSE, <<>>, 0)
    /\ UNCHANGED <<run, downloading>>

Init ==
    /\ run = [b \in Batches |-> NotStarted]
    /\ downloading = FALSE
    /\ fetch = NoFetch

\* One submit of the form and the run it starts.  Runs share no state but
\* downloading, which none of them reads, so the other runs stay NotStarted
\* here.
Next ==
    \/ Submit(1)
    \/ ToastShown(1)
    \/ StdoutData(1)
    \/ CloseEvent(1)
    \/ ErrorEvent(1)
    \/ Cancel(1)

Spec == Init /\ [][Next]_vars

NextFetch ==
    \/ ShowDetails
    \/ ExecaReturns
    \/ ExecaFails

SpecFetch == Init /\ [][NextFetch]_vars

\* Several submits of the form, and the runs they start, interleaved.
NextOverlap ==
    \E b \in Batches :
        \/ SubmitShort(b)
        \/ ToastShown(b)
        \/ StdoutData(b)
        \/ CloseEvent(b)
        \/ ErrorEvent(b)
        \/ Cancel(b)

SpecOverlap == Init /\ [][NextOverlap]_vars

\* The run under the proviso that showToast returns and that every spawned
\* process emits the events due: error after a failed spawn, close in the
\* end.
SpecLive ==
    /\ Spec
    /\ WF_vars(ToastShown(1))
    /\ WF_vars(CloseEvent(1))
    /\ WF_vars(ErrorEvent(1))

----------------------------------------------------------------------------
(* Properties of the batch download *)

Jobs(r) == DOMAIN r.urls

Terminal == {"Succeeded", "Failed", "Cancelled"}

ReportTitles ==
    {"Bulk download complete", "Bulk download finished with errors", "Bulk download failed"}

\* C1: in a run in which cancel is never invoked every URL is attempted
\* exactly once and in input order: the jobs are spawned in the order
\* 1, 2, ..., a job that has ended (by exit code or by a spawn error) is
\* followed by the spawn of the next one, and a completed run has spawned
\* all of them.
C1_AllAttemptedInOrder ==
    \A b \in Batches :
        LET r == run[b]
        IN /\ r.spawned = [i \in 1..Len(r.spawned) |-> i]
           /\ ~r.isCancelled /\ r.pc \in {"Running", "Completed"} =>
                \A j \in Jobs(r) :
                    (r.status[j] \in Terminal /\ j < Len(r.urls)) => r.status[j + 1] # "Pending"
           /\ r.pc = "Completed" => Len(r.spawned) = Len(r.urls)

\* Three URLs, the first job exits with 1, the spawn of the second fails,
\* the third is run all the same.
C1_Witness ==
    \E b \in Batches :
        /\ run[b].pc = "Completed"
        /\ run[b].status = <<"Failed", "Failed", "Succeeded">>
        /\ <<1, 1>> \in run[b].closed
        /\ run[b].proc[2] = "Errored"
        /\ run[b].spawned = <<1, 2, 3>>

\* C2: at most one download process of a batch is alive, and a job is
\* spawned only after the one before it has closed or has reported that its
\* spawn failed.
C2_OneProcessAlive ==
    \A b \in Batches :
        LET r == run[b]
        IN /\ Cardinality({j \in Jobs(r) : r.proc[j] = "Alive"}) <= 1
           /\ \A j \in Jobs(r) :
                (j > 1 /\ r.proc[j] # "None") =>
                    /\ r.proc[j - 1] \in {"Closed", "Errored"}
                    /\ r.status[j - 1] \in Terminal

\* The second job runs, has printed progress, and the close event of the
\* first, whose spawn failed, is still to come.
C2_Witness ==
    \E b \in Batches :
        /\ Len(run[b].urls) >= 2
        /\ run[b].proc[1] = "Errored"
        /\ run[b].proc[2] = "Alive"
        /\ run[b].toast.message = Message("%", 42, 0)

\* C3: once cancel has been invoked no process is spawned: every job after
\* the one that was running when cancel was invoked stays Pending, its
\* process never spawned.
C3_NoSpawnAfterCancel ==
    \A b \in Batches :
        LET r == run[b]
        IN r.isCancelled =>
            \A j \in Jobs(r) :
                j > r.cancelledAt => r.status[j] = "Pending" /\ r.proc[j] = "None"

\* Cancel during the first of three jobs, which then exits with 0: the run
\* has returned and the other two were never started.
C3_Witness ==
    \E b \in Batches :
        /\ run[b].isCancelled
        /\ run[b].cancelledAt = 1
        /\ Len(run[b].urls) = 3
        /\ <<1, 0>> \in run[b].closed
        /\ run[b].pc = "Cancelled"

\* C4: when cancel is invoked while job K runs, kill is called on the
\* handle of K, K is never logged as a failed download, a non-zero exit or
\* an error of K makes it Cancelled, not Failed, and the run ends Cancelled,
\* never Completed.
C4_CancelRunningJob ==
    \A b \in Batches :
        LET r == run[b]
            K == r.cancelledAt
        IN r.isCancelled =>
            /\ K \in Jobs(r)
            /\ K \in r.killed
            /\ K \notin r.logged
            /\ r.status[K] # "Failed"
            /\ (r.proc[K] = "Errored" \/ \E c \in ExitCodes \ {0} : <<K, c>> \in r.closed)
                    => r.status[K] = "Cancelled"
            /\ r.pc # "Completed"
            /\ r.status[K] # "Running" => r.pc = "Cancelled"

\* Cancel during the second job, which closes with code 1.
C4_Witness ==
    \E b \in Batches :
        /\ run[b].isCancelled
        /\ run[b].cancelledAt = 2
        /\ <<2, 1>> \in run[b].closed
        /\ run[b].status[2] = "Cancelled"
        /\ run[b].pc = "Cancelled"

\* C5: a run on which cancel was invoked never shows a completion report
\* nor the actions that go with it, also when the job that was running
\* exits with code 0.
C5_NoReportAfterCancel ==
    \A b \in Batches :
        LET r == run[b]
        IN r.isCancelled =>
            /\ r.pc # "Completed"
            /\ r.toast.title.text \notin ReportTitles
            /\ r.toast.primaryAction # "Open in Finder"
            /\ r.toast.secondaryAction = "None"

\* Cancel during the last job, which exits with 0, so that the loop ends
\* because the URLs are exhausted.
C5_Witness ==
    \E b \in Batches :
        /\ run[b].isCancelled
        /\ run[b].cancelledAt = Len(run[b].urls)
        /\ <<run[b].cancelledAt, 0>> \in run[b].closed
        /\ run[b].status[run[b].cancelledAt] = "Succeeded"
        /\ run[b].pc = "Cancelled"

\* C6: at the end of a run that was not cancelled successCount is the
\* number of jobs whose process exited with 0, and the report is "complete"
\* iff all succeeded, "finished with errors" (with the two counts) iff some
\* but not all did, "failed" iff none did.
C6_ReportClassification ==
    \A b \in Batches :
        LET r     == run[b]
            total == Len(r.urls)
            zero  == Cardinality({j \in Jobs(r) : <<j, 0>> \in r.closed})
        IN r.pc = "Completed" =>
            /\ total > 0
            /\ r.successCount = zero
            /\ r.toast.title.text \in ReportTitles
            /\ r.toast.title.text = "Bulk download complete" <=> zero = total
            /\ r.toast.title.text = "Bulk download finished with errors" <=> (0 < zero /\ zero < total)
            /\ r.toast.title.text = "Bulk download failed" <=> zero = 0
            /\ r.toast.title.text = "Bulk download finished with errors" =>
                    r.toast.message = Message("downloaded, failed", zero, total - zero)

\* Three URLs, exit codes 0, 1, 0: two downloaded, one failed.
C6_Witness ==
    \E b \in Batches :
        /\ run[b].pc = "Completed"
        /\ run[b].closed = {<<1, 0>>, <<2, 1>>, <<3, 0>>}
        /\ run[b].successCount = 2
        /\ run[b].toast.message = Message("downloaded, failed", 2, 1)

\* What the progress pattern finds in a line.
PatternMatch(line) == ExecFrom(line, 1)

\* The last line is shown as it was handled: the run is at this job, not
\* cancelled, and nothing but stdout data has written the message since.
ShowsLastData(r) == r.pc = "Running" /\ ~r.isCancelled /\ r.lastData # <<>>

\* C7: a progress line whose percentage is zero sets the displayed progress
\* to 0, also when a larger value was displayed before.
C7_ZeroPercentShown ==
    \A b \in Batches :
        LET r == run[b]
            m == PatternMatch(r.lastData)
        IN (ShowsLastData(r) /\ m.matched /\ m.num = 0) =>
                r.toast.message = Message("%", 0, 0)

\* A step of run b in which its running job printed a line.
DataStep(b) ==
    /\ run'[b].lastData # <<>>
    /\ run'[b] # run[b]
    /\ run'[b] = [run[b] EXCEPT !.lastData = run'[b].lastData,
                                !.toast.message = run'[b].toast.message]

NoDuplicates(s) == Cardinality(Range(s)) = Len(s)

\* C9: the list of URLs that a submit hands to the loop holds only lines
\* that pass the URL predicate and holds none of them twice, so that a URL
\* entered on two lines gives one job.
C9_ValidatedUrls ==
    \A b \in Batches :
        /\ \A i \in DOMAIN run[b].urls : isValidUrl(run[b].urls[i])
        /\ NoDuplicates(run[b].urls)

\* C10: when the metadata subprocess prints k lines that parse and exits
\* with a code that is not 0, the fetch returns the k videos.
C10_PartialFailureTolerated ==
    (fetch.pc = "Done" /\ fetch.spawned /\ fetch.code # 0) =>
        fetch.videos = ParseVideos(fetch.stdout)

----------------------------------------------------------------------------
(* Properties of the metadata fetch *)

\* C11: the fetch always returns a list and never throws to its caller;
\* when the subprocess cannot be started, or execa throws because of its
\* exit code, the list is empty and exactly one failure toast is shown.
C11_FetchTotal ==
    /\ fetch.pc \in {"Idle", "Running", "Done"}
    /\ fetch.toasts <= 1
    /\ fetch.pc = "Done" =>
        /\ DOMAIN fetch.videos = 1..Len(fetch.videos)
        /\ Len(fetch.urls) = 0 => fetch.videos = <<>> /\ fetch.toasts = 0
        /\ (Len(fetch.urls) > 0 /\ (~fetch.spawned \/ fetch.code # 0)) =>
                fetch.videos = <<>> /\ fetch.toasts = 1

\* The subprocess of a fetch over two URLs could not be spawned.
C11_Witness ==
    /\ fetch.pc = "Done"
    /\ Len(fetch.urls) = 2
    /\ ~fetch.spawned
    /\ fetch.videos = <<>>
    /\ fetch.toasts = 1

\* The lines of the output that are one JSON record, white space aside.
RecordLines(stdout) ==
    {i \in DOMAIN Split(stdout) :
        \E tok \in {"J1", "J2"} :
            /\ tok \in Range(Split(stdout)[i])
            /\ Range(Split(stdout)[i]) \subseteq {tok, " "}
            /\ Cardinality({k \in DOMAIN Split(stdout)[i] : Split(stdout)[i][k] = tok}) = 1}

\* The record of the k-th of these lines.
KthRecord(stdout, k) ==
    LET i == CHOOSE i \in RecordLines(stdout) :
                Cardinality({i2 \in RecordLines(stdout) : i2 <= i}) = k
    IN CHOOSE tok \in {"J1", "J2"} : tok \in Range(Split(stdout)[i])

\* C12: when the subprocess ends with code 0 the list has one video for
\* each line that is a JSON record, in the order of the lines, with its
\* title sanitized; the other lines are dropped, without a toast.
C12_OneVideoPerRecordLine ==
    (fetch.pc = "Done" /\ fetch.spawned /\ fetch.code = 0) =>
        /\ fetch.toasts = 0
        /\ Len(fetch.videos) = Cardinality(RecordLines(fetch.stdout))
        /\ \A k \in DOMAIN fetch.videos :
            /\ fetch.videos[k].id = KthRecord(fetch.stdout, k)
            /\ "/" \notin Range(fetch.videos[k].title)

\* Two records with a line that is no JSON between them.
C12_Witness ==
    /\ fetch.pc = "Done"
    /\ fetch.code = 0
    /\ fetch.stdout = <<"J2", NL, "{", NL, "J1">>
    /\ Len(fetch.videos) = 2
    /\ fetch.videos[1].id = "J2"
    /\ fetch.videos[2].id = "J1"
    /\ fetch.videos[2].title = <<"T">>

----------------------------------------------------------------------------
(* Further properties of the batch download *)

\* C13: a submit whose text holds no valid URL starts nothing: the failure
\* toast is shown, no process is spawned, downloading stays false and the
\* cancel action is not installed.
C13_NoUrlsRejected ==
    \A b \in Batches :
        LET r == run[b]
        IN /\ (r.pc # "NotStarted" /\ Len(r.urls) = 0) => r.pc = "NoUrls"
           /\ r.pc = "NoUrls" =>
                /\ r.toast.style = "Failure"
                /\ r.toast.title = Title("No valid URLs found", 0, 0)
                /\ r.toast.primaryAction = "None"
                /\ r.spawned = <<>>
                /\ r.activeProcess = 0
                /\ ~downloading

\* The submit was rejected.
C13_Witness ==
    \E b \in Batches :
        /\ run[b].pc = "NoUrls"
        /\ run[b].toast.title.text = "No valid URLs found"
        /\ ~downloading

\* C14: the handle activeProcess is set only while its job is Running: it
\* is empty between jobs, after completion and after cancellation.
C14_HandleOnlyWhileRunning ==
    \A b \in Batches :
        LET r == run[b]
        IN r.activeProcess # 0 => r.status[r.activeProcess] = "Running"

\* The cancel action has been installed for the run.
Started(r) == r.pc \in {"Running", "Completed", "Cancelled"}

\* C15: cancel is idempotent: in every state of a run, the cancel action
\* run twice leaves the run as the cancel action run once does.
C15_CancelIdempotent ==
    \A b \in Batches :
        Started(run[b]) =>
            /\ OnCancel(OnCancel(run[b])) = OnCancel(run[b])
            /\ OnCancel(run[b]).isCancelled

\* Cancel has run while the second job is alive: a second cancel changes
\* nothing.
C15_Witness ==
    \E b \in Batches :
        /\ run[b].pc = "Running"
        /\ run[b].isCancelled
        /\ run[b].cancelledAt = 2
        /\ run[b].proc[2] = "Alive"
        /\ OnCancel(run[b]) = run[b]

Ended(r) == r.pc \in {"Completed", "Cancelled"}

\* C16: provided every spawned process emits close or error, a run that
\* has started ends, Completed when cancel was not invoked and Cancelled
\* when it was, and stays so; and as long as no process emits close or
\* error and cancel is not invoked, the run stays Running and spawns
\* nothing.
C16_RunEnds ==
    /\ \A b \in Batches : (run[b].pc = "AwaitToast") ~> Ended(run[b])
    /\ [](\A b \in Batches :
            /\ run[b].pc = "Completed" => ~run[b].isCancelled
            /\ run[b].pc = "Cancelled" => run[b].isCancelled)
    /\ [][\A b \in Batches :
            /\ Ended(run[b]) => run'[b].pc = run[b].pc
            /\ (/\ run[b].pc = "Running"
                /\ run'[b].proc = run[b].proc
                /\ run'[b].isCancelled = run[b].isCancelled)
                    => /\ run'[b].pc = "Running"
                       /\ run'[b].spawned = run[b].spawned]_vars

\* Cancel during the second job: kill was called and the process closed.
C16_Witness ==
    \E b \in Batches :
        /\ run[b].pc = "Cancelled"
        /\ run[b].cancelledAt = 2
        /\ 2 \in run[b].killed
        /\ run[b].proc[2] = "Closed"

\* C17: a job gets one outcome and is counted once: an outcome, once
\* reached, does not change (so a job does not run again, and a second
\* event of its process changes nothing of it), a step that leaves the
\* number of Succeeded jobs as it was leaves successCount as it was, and
\* successCount is the number of Succeeded jobs, at most the number of
\* spawned jobs, at most the number of URLs.
C17_OneOutcomePerJob ==
    /\ [](\A b \in Batches :
            LET r == run[b]
                succeeded == {j \in Jobs(r) : r.status[j] = "Succeeded"}
            IN /\ r.successCount = Cardinality(succeeded)
               /\ 0 <= r.successCount
               /\ r.successCount <= Len(r.spawned)
               /\ Len(r.spawned) <= Len(r.urls))
    /\ [][\A b \in Batches :
            run[b].pc # "NotStarted" =>
                \A j \in Jobs(run[b]) :
                    /\ run[b].status[j] \in Terminal => run'[b].status[j] = run[b].status[j]
                    /\ run[b].status[j] # "Pending" => run'[b].status[j] # "Pending"
                    /\ (run'[b].status[j] = "Running" /\ run[b].status[j] # "Running")
                            => run[b].status[j] = "Pending"]_vars

\* The spawn of the first job failed: its handle emitted error and then
\* close, while the second job had succeeded in between or after.
C17_Witness ==
    \E b \in Batches :
        /\ Len(run[b].urls) >= 2
        /\ 1 \in run[b].errored
        /\ run[b].proc[1] = "Closed"
        /\ run[b].status[1] = "Failed"
        /\ run[b].status[2] = "Succeeded"
        /\ run[b].successCount = 1

\* C18: once cancel has been invoked the toast keeps the cancelled status:
\* its title stays "Download Cancelled", its message "Bulk download was
\* stopped", and it has no primary action.
C18_CancelledStatusStays ==
    \A b \in Batches :
        run[b].isCancelled =>
            /\ run[b].toast.title = Title("Download Cancelled", 0, 0)
            /\ run[b].toast.message = Message("Bulk download was stopped", 0, 0)
            /\ run[b].toast.primaryAction = "None"

\* The run has been started and has neither completed nor been cancelled.
StillRunning(r) == r.pc \in {"AwaitToast", "Running"} /\ ~r.isCancelled

\* C19: downloading is true exactly when some submitted run is still
\* running, also when a run is submitted before an earlier one has ended.
C19_DownloadingWhileRunning ==
    downloading <=> \E b \in Batches : StillRunning(run[b])

====
